---- MODULE Spec2Model ----
(***************************************************************************)
(* A model of pubmate: the IdentifierGenerator (src/pubmate/mint.py), the  *)
(* mint command line (src/pubmate/cli/mint.py) and the graph cleaner and   *)
(* assertion splitter (src/pubmate/rdfcleaner.py).                         *)
(*                                                                         *)
(* Python strings are sequences of one-character strings, so that prefix   *)
(* tests, slices and pattern matches are computed and not assumed.         *)
(***************************************************************************)
EXTENDS Integers, Sequences, FiniteSets, TLC

VARIABLES
    namespace,        \* IdentifierGenerator.namespace
    type_prefix,      \* IdentifierGenerator.type_prefix (None or a string)
    registered_ids,   \* IdentifierGenerator.registered_ids
    last,             \* the last call on the generator and how it ended
    returned,         \* history: what generate_id returned, and in which mode
    entities,         \* mint cli: the record list of the YAML target
    pos,              \* mint cli: index of the next record of the loop
    pc,               \* mint cli: position of the run
    opts,             \* mint cli: the options of the run
    minted,           \* mint cli history: indexes given a new identifier
    kept,             \* mint cli history: indexes whose identifier was kept
    written,          \* mint cli: the record list written to the output file
    error,            \* mint cli: the error the run ended with, exit code 1
    g,                \* rdfcleaner: the rdflib graph, a set of triples
    gBefore,          \* rdfcleaner history: the graph before the last call
    call,             \* rdfcleaner: the last call, its arguments and outcome
    yielded           \* split_into_assertions: the pairs yielded, in order

genVars == <<namespace, type_prefix, registered_ids, last, returned>>
mintVars == <<entities, pos, pc, opts, minted, kept, written, error>>
graphVars == <<g, gBefore, call, yielded>>
vars == <<genVars, mintVars, graphVars>>

-----------------------------------------------------------------------------
(* Bounds of the model *)

\* most attempts a generate_id call is given (max_attempts ranges over 1..MaxAttempts)
MaxAttempts == 2
\* identifiers recorded in the history before the model stops generating
MaxGenerate == 2
\* size the registry may reach before the model stops adding to it
MaxRegistered == 2
\* longest record list a mint run is given
MaxEntities == 2
\* uuid4() draws of a mint run's generate_id call that vary; later draws of the
\* call repeat the last of them
FreeDraws == 2
\* most triples loaded into a graph before it is cleaned
MaxTriples == 8
\* most triples loaded into a graph before it is split
MaxSplitTriples == 6
\* most parent class identifiers handed to split_into_assertions
MaxParents == 2

-----------------------------------------------------------------------------
(* Strings *)

\* an Optional[str] is <<>> for None and <<s>> for the string s
None == <<>>

Some(s) == <<s>>

StartsWith(s, p) == Len(s) >= Len(p) /\ SubSeq(s, 1, Len(p)) = p

\* s[n:] of Python, n >= 0
SliceFrom(s, n) == SubSeq(s, n + 1, Len(s))

\* s[:n] of Python, n >= 0
SliceTo(s, n) == SubSeq(s, 1, IF n < Len(s) THEN n ELSE Len(s))

Rep(c, n) == [i \in 1..n |-> c]

Range(s) == {s[i] : i \in DOMAIN s}

HexChars == {"0", "1", "2", "3", "4", "5", "6", "7", "8", "9",
             "a", "b", "c", "d", "e", "f"}

\* length of the unique part of the uuid method
UuidLen == 8
\* length of the unique part of the hash method
HashLen == 10
\* length of a SHA-256 hexdigest
DigestLen == 64

\* re.match(r"^[0-9a-f]{n}$", s): n hex characters, then the end of the string
\* or a newline that ends the string ('$' of Python's re matches before it)
MatchHex(s, n) ==
    /\ Len(s) >= n
    /\ \A i \in 1..n : s[i] \in HexChars
    /\ \/ Len(s) = n
       \/ Len(s) = n + 1 /\ s[n + 1] = "\n"

-----------------------------------------------------------------------------
(* IdentifierGenerator: the inputs the model draws from *)

\* generators: a namespace (with and without a trailing separator) and an
\* optional type prefix (none, a name, the empty string)
Generators ==
    {[namespace |-> <<"n", "/">>, type_prefix |-> None],
     [namespace |-> <<"n", "#">>, type_prefix |-> Some(<<"t">>)],
     [namespace |-> <<"n">>, type_prefix |-> Some(<<>>)]}

Methods == {"uuid", "hash", "slug"}

\* the methods generate_id and is_valid_id implement
Supported == {"uuid", "hash"}

\* records: mappings from field names to strings
Records == {[name |-> <<"A">>], [name |-> <<"B">>]}

\* label_field arguments: the default, which the callers of this repository use
Preflabels == {"name"}

\* attributes of a dict object that a label_field argument can name
DictAttributes == {"items", "keys", "values", "get"}

\* uuid4() is random: each draw is one of these (the character the string repeats)
UuidDraws == {"0", "a"}

\* entity[a:b] on a dict: TypeError (slices are unhashable before Python 3.12),
\* KeyError from Python 3.12 on
SliceKeyErrors == {"TypeError", "KeyError"}

-----------------------------------------------------------------------------
(* IdentifierGenerator: helpers of generate_id *)

\* str(uuid4()): 8-4-4-4-12 hexadecimal characters, version nibble 4
Uuid4Str(c) ==
    Rep(c, 8) \o <<"-">> \o Rep(c, 4) \o <<"-", "4">> \o Rep(c, 3) \o <<"-">>
        \o Rep(c, 4) \o <<"-">> \o Rep(c, 12)

\* the field names records use, in the order sort_keys puts them
FieldOrder == <<"_collision", "id", "name">>

RECURSIVE JsonMembers(_, _)
JsonMembers(data, i) ==
    IF i > Len(FieldOrder) THEN <<>>
    ELSE LET k == FieldOrder[i]
             rest == JsonMembers(data, i + 1)
         IN IF k \in DOMAIN data
            THEN <<"\"", k, "\"", ":", "\"">> \o data[k] \o <<"\"">>
                 \o (IF rest = <<>> THEN <<>> ELSE <<",">> \o rest)
            ELSE rest

\* json.dumps(data, sort_keys=True, separators=(",", ":"))
CanonicalJson(data) == <<"{">> \o JsonMembers(data, 1) \o <<"}">>

CharCode(c) ==
    CASE c = "A" -> 1
      [] c = "B" -> 2
      [] c = "C" -> 4
      [] c = "a" -> 3
      [] c = "f" -> 5
      [] c = "id" -> 7
      [] OTHER -> 0

RECURSIVE SumCodes(_, _, _)
SumCodes(text, weight, step) ==
    IF text = <<>> THEN 0
    ELSE weight * CharCode(Head(text)) + SumCodes(Tail(text), weight + step, step)

HexDigits == <<"0", "a", "f", "3", "c">>

\* hashlib.sha256(text).hexdigest(): a deterministic function of the text into
\* DigestLen hexadecimal characters.  The digest is abstracted to two checksums
\* of the text, one for the first HashLen characters and one for the rest, so
\* texts that differ may agree on the characters generate_id keeps, as
\* truncated digests can.
Sha256Hex(text) ==
    Rep(HexDigits[(SumCodes(text, 1, 0) % 3) + 1], HashLen)
        \o Rep(HexDigits[(SumCodes(text, 1, 1) % 5) + 1], DigestLen - HashLen)

hash_dict(data) == Sha256Hex(CanonicalJson(data))

\* f"{namespace}{unique_part}" or f"{namespace}{type_prefix}-{unique_part}"
Identifier_nodash(ns, tp, unique_part) ==
    IF tp = None THEN ns \o unique_part ELSE ns \o tp[1] \o unique_part

Identifier(ns, tp, unique_part) ==
    IF tp = None THEN ns \o unique_part ELSE ns \o tp[1] \o <<"-">> \o unique_part

is_id_available(reg, identifier) == identifier \notin reg

register_id_forgets(reg, identifier) == reg

register_id(reg, identifier) == reg \cup {identifier}

\* the registry after generate_id returns a candidate it did not check
ReturnUnchecked_registers(reg, identifier) == reg \cup {identifier}

ReturnUnchecked(reg, identifier) == reg

\* getattr(entity, preflabel) on a dict: its fields are items, not attributes
GetAttr(entity, preflabel) ==
    IF preflabel \in DictAttributes
    THEN [outcome |-> "return", value |-> <<"<built-in method>">>]
    ELSE [outcome |-> "AttributeError", value |-> <<>>]

\* How a generate_id call ends.  draws[k] is the k-th uuid4() of the call,
\* sliceExc the error entity["_collision":attempts] raises.  tried lists the
\* candidates found registered, cands every candidate computed, reg is the
\* registry when the call ends, label what the error message was to name.
generate_id(ns, tp, reg, entity, method, check_collision, max_attempts, preflabel, draws, sliceExc) ==
    LET End(outcome, id, tried, cands, newreg, label, msg) ==
            [outcome |-> outcome, id |-> id, tried |-> tried, cands |-> cands,
             reg |-> newreg, label |-> label, msg |-> msg]
        RECURSIVE Loop(_, _, _)
        Try(attempts, tried, cands, identifier) ==
            IF check_collision
            THEN IF is_id_available(reg, identifier)
                 THEN End("return", identifier, tried, Append(cands, identifier),
                          register_id(reg, identifier), <<>>, <<>>)
                 ELSE Loop(attempts + 1, Append(tried, identifier),
                           Append(cands, identifier))
            ELSE End("return", identifier, tried, Append(cands, identifier),
                     ReturnUnchecked(reg, identifier), <<>>, <<>>)
        Raise(tried, cands, attr) ==
            IF attr.outcome = "return"
            THEN End("RuntimeError", <<>>, tried, cands, reg, entity[preflabel],
                     <<attr.value, max_attempts>>)
            ELSE End(attr.outcome, <<>>, tried, cands, reg, entity[preflabel], <<>>)
        Loop(attempts, tried, cands) ==
            IF ~(attempts < max_attempts)
            THEN Raise(tried, cands, GetAttr(entity, preflabel))
            ELSE IF method = "uuid"
            THEN Try(attempts, tried, cands,
                     Identifier(ns, tp, SliceTo(Uuid4Str(draws[attempts + 1]), UuidLen)))
            ELSE IF method = "hash"
            THEN IF attempts > 0
                 THEN End(sliceExc, <<>>, tried, cands, reg, <<>>, <<>>)
                 ELSE Try(attempts, tried, cands,
                          Identifier(ns, tp, SliceTo(hash_dict(entity), HashLen)))
            ELSE End("ValueError", <<>>, tried, cands, reg, <<>>, <<>>)
    IN Loop(0, <<>>, <<>>)

\* How an is_valid_id call ends
is_valid_id_method_first(ns, tp, key, method) ==
    IF method \notin {"uuid", "hash"}
    THEN [outcome |-> "NotImplementedError", ok |-> FALSE]
    ELSE LET n == IF method = "uuid" THEN UuidLen ELSE HashLen
             remaining == SliceFrom(key, Len(ns))
             expected_prefix == tp[1] \o <<"-">>
         IN [outcome |-> "return",
             ok |-> /\ StartsWith(key, ns)
                    /\ IF tp # None
                       THEN /\ StartsWith(remaining, expected_prefix)
                            /\ MatchHex(SliceFrom(remaining, Len(expected_prefix)), n)
                       ELSE MatchHex(remaining, n)]

is_valid_id(ns, tp, key, method) ==
    IF ~StartsWith(key, ns)
    THEN [outcome |-> "return", ok |-> FALSE]
    ELSE LET remaining == SliceFrom(key, Len(ns))
         IN IF method \notin {"uuid", "hash"}
            THEN [outcome |-> "NotImplementedError", ok |-> FALSE]
            ELSE LET n == IF method = "uuid" THEN UuidLen ELSE HashLen
                 IN IF tp # None
                    THEN LET expected_prefix == tp[1] \o <<"-">>
                         IN IF ~StartsWith(remaining, expected_prefix)
                            THEN [outcome |-> "return", ok |-> FALSE]
                            ELSE [outcome |-> "return",
                                  ok |-> MatchHex(SliceFrom(remaining,
                                                            Len(expected_prefix)), n)]
                    ELSE [outcome |-> "return", ok |-> MatchHex(remaining, n)]


-----------------------------------------------------------------------------
(* IdentifierGenerator: state and operations *)

\* keys handed to is_valid_id, register_id and is_id_available: identifiers of
\* this generator's format, well formed and not, and one of another namespace
KeyPool(ns, tp) ==
    {Identifier(ns, tp, u) :
        u \in {Rep("0", UuidLen), Rep("a", HashLen),
               Rep("a", UuidLen) \o <<"\n">>, Rep("g", UuidLen)}}
    \cup {<<"x", "/">> \o Rep("0", UuidLen)}

\* keys handed to register_id: well-formed identifiers, as the callers register
RegisterPool(ns, tp) ==
    {Identifier(ns, tp, u) : u \in {Rep("0", UuidLen), Rep("a", HashLen)}}

NoCall ==
    [op |-> "none", method |-> "", check |-> FALSE, max_attempts |-> 0,
     key |-> <<>>, outcome |-> "", id |-> <<>>, ok |-> FALSE, tried |-> <<>>,
     cands |-> <<>>, label |-> <<>>, msg |-> <<>>]

InitGenerator ==
    /\ \E gen \in Generators :
         /\ namespace = gen.namespace
         /\ type_prefix = gen.type_prefix
    /\ registered_ids = {}
    /\ last = NoCall
    /\ returned = {}

GenerateId ==
    /\ Cardinality(returned) < MaxGenerate
    /\ \E entity \in Records, method \in Methods, check \in BOOLEAN,
          max_attempts \in 1..MaxAttempts, preflabel \in Preflabels :
         \E draws \in (IF method = "uuid" THEN [1..max_attempts -> UuidDraws]
                        ELSE {<<>>}),
            sliceExc \in (IF method = "hash" THEN SliceKeyErrors ELSE {""}) :
            \E r \in {generate_id(namespace, type_prefix, registered_ids, entity,
                                  method, check, max_attempts, preflabel, draws,
                                  sliceExc)} :
               /\ Cardinality(r.reg) <= MaxRegistered
               /\ registered_ids' = r.reg
               /\ last' = [NoCall EXCEPT !.op = "generate_id", !.method = method,
                              !.check = check, !.max_attempts = max_attempts,
                              !.outcome = r.outcome, !.id = r.id,
                              !.tried = r.tried, !.cands = r.cands,
                              !.label = r.label, !.msg = r.msg]
               /\ returned' = IF r.outcome = "return"
                              THEN returned \cup {[id |-> r.id, check |-> check]}
                              ELSE returned
    /\ UNCHANGED <<namespace, type_prefix>>

IsValidId ==
    /\ \E key \in KeyPool(namespace, type_prefix) \cup {e.id : e \in returned},
          method \in Methods :
         LET r == is_valid_id(namespace, type_prefix, key, method)
         IN last' = [NoCall EXCEPT !.op = "is_valid_id", !.method = method,
                        !.key = key, !.outcome = r.outcome, !.ok = r.ok]
    /\ UNCHANGED <<namespace, type_prefix, registered_ids, returned>>

RegisterId ==
    /\ \E key \in RegisterPool(namespace, type_prefix) :
         /\ Cardinality(register_id(registered_ids, key)) <= MaxRegistered
         /\ registered_ids' = register_id(registered_ids, key)
         /\ last' = [NoCall EXCEPT !.op = "register_id", !.key = key,
                        !.outcome = "return"]
    /\ UNCHANGED <<namespace, type_prefix, returned>>

IsIdAvailable ==
    /\ \E key \in KeyPool(namespace, type_prefix) :
         last' = [NoCall EXCEPT !.op = "is_id_available", !.key = key,
                     !.outcome = "return",
                     !.ok = is_id_available(registered_ids, key)]
    /\ UNCHANGED <<namespace, type_prefix, registered_ids, returned>>



-----------------------------------------------------------------------------
(* The mint command line *)

\* max_attempts of generate_id when the caller passes none
DefaultMaxAttempts == 10

\* --namespace of the runs
MintNamespace == <<"n", "/">>

\* values of a YAML list item: a mapping (isdict) with its fields, or a scalar
Dict(fields) == [isdict |-> TRUE, data |-> fields]

Scalar == [isdict |-> FALSE, data |-> <<>>]

\* the items the record lists are made of: records without identifier, with the
\* identifier an earlier run minted for {"name": "A"} by hash, with a valid
\* uuid identifier, with an identifier of the wrong format, with an empty label,
\* without label, and an item that is no mapping
Items ==
    {Dict([name |-> <<"A">>]),
     Dict([name |-> <<"B">>]),
     Dict([id |-> MintNamespace \o Rep("a", HashLen), name |-> <<"A">>]),
     Dict([id |-> MintNamespace \o Rep("0", UuidLen), name |-> <<"B">>]),
     Dict([id |-> MintNamespace \o Rep("g", UuidLen), name |-> <<"B">>]),
     Dict([name |-> <<>>]),
     Dict([id |-> MintNamespace \o Rep("0", UuidLen)]),
     Scalar}

\* yaml_root[target_name]: a list of items, or a value that is no list
NotAList == <<Scalar, Scalar, Scalar, Scalar>>

Targets == UNION {[1..n -> Items] : n \in 0..MaxEntities} \cup {NotAList}

\* dict.get(key): None when the key is missing
Get(data, key) == IF key \in DOMAIN data THEN Some(data[key]) ELSE None

\* a test for None where the code tests the truth value
Truthy_not_none(opt) == opt # None

\* truth value of an Optional[str]
Truthy(opt) == opt # None /\ opt[1] # <<>>

\* the uuid4() draws of one generate_id call of a run
MintDraws ==
    {[k \in 1..DefaultMaxAttempts |-> f[IF k <= FreeDraws THEN k ELSE FreeDraws]] :
        f \in [1..FreeDraws -> UuidDraws]}

MintStart ==
    /\ pc = "idle"
    /\ \E target \in Targets, method \in Supported, force \in BOOLEAN,
          dry_run \in BOOLEAN :
         /\ opts' = [method |-> method, force |-> force, dry_run |-> dry_run]
         /\ IF target = NotAList
            THEN /\ pc' = "failed"
                 /\ error' = "ValueError"
                 /\ UNCHANGED <<entities, pos, namespace, type_prefix, registered_ids>>
            ELSE /\ pc' = "loop"
                 /\ entities' = target
                 /\ pos' = 1
                 /\ namespace' = MintNamespace
                 /\ type_prefix' = None
                 /\ registered_ids' = {}
                 /\ UNCHANGED error
    /\ UNCHANGED <<minted, kept, written, last, returned>>

\* one pass of the loop over the records
MintStep ==
    /\ pc = "loop"
    /\ pos <= Len(entities)
    /\ LET entity == entities[pos]
           Fail(e) == /\ pc' = "failed"
                      /\ error' = e
                      /\ UNCHANGED <<entities, pos, minted, kept, registered_ids,
                                     last, returned>>
       IN IF ~entity.isdict
          THEN Fail("ValueError")
          ELSE LET current_id == Get(entity.data, "id")
                   label_value == Get(entity.data, "name")
               IN IF ~Truthy(label_value)
                  THEN Fail("ValueError")
                  ELSE IF /\ Truthy(current_id) /\ ~opts.force
                          /\ is_valid_id(namespace, type_prefix, current_id[1],
                                         opts.method).ok
                  THEN /\ registered_ids' = register_id(registered_ids, current_id[1])
                       /\ kept' = kept \cup {pos}
                       /\ pos' = pos + 1
                       /\ UNCHANGED <<entities, pc, minted, error, last, returned>>
                  ELSE \E draws \in (IF opts.method = "uuid" THEN MintDraws ELSE {<<>>}),
                          sliceExc \in SliceKeyErrors :
                          \E r \in {generate_id(namespace, type_prefix, registered_ids,
                                                entity.data, opts.method, TRUE,
                                                DefaultMaxAttempts, "name", draws,
                                                sliceExc)} :
                             IF r.outcome # "return"
                             THEN Fail(r.outcome)
                             ELSE /\ entities' =
                                       [entities EXCEPT ![pos] =
                                           Dict([k \in DOMAIN entity.data \cup {"id"} |->
                                                   IF k = "id" THEN r.id
                                                   ELSE entity.data[k]])]
                                  /\ registered_ids' = r.reg
                                  /\ minted' = minted \cup {pos}
                                  /\ pos' = pos + 1
                                  /\ UNCHANGED <<pc, kept, error, last, returned>>
    /\ UNCHANGED <<opts, written, namespace, type_prefix>>

\* after the loop: the dry run prints, the run proper writes the output file
MintFinish ==
    /\ pc = "loop"
    /\ pos > Len(entities)
    /\ pc' = "done"
    /\ written' = IF opts.dry_run THEN None ELSE Some(entities)
    /\ UNCHANGED <<entities, pos, opts, minted, kept, error, genVars>>


-----------------------------------------------------------------------------
(* rdfcleaner: terms and graphs *)

\* RDF terms: IRIs and literals; a plain literal has the empty language tag
Iri(tokens) == [kind |-> "iri", val |-> tokens, lang |-> <<>>]

Lit(text, lang) == [kind |-> "lit", val |-> text, lang |-> lang]

Plain(text) == Lit(<<text>>, <<>>)

EndsWith(s, c) == Len(s) > 0 /\ s[Len(s)] = c

\* f"<{base_namespace}translations>" and the like
BaseIri(base_namespace, name) == Iri(base_namespace \o <<name>>)

Base == <<"b", "/">>

RdfsLabel == Iri(<<"rdfs", "#", "label">>)

SkosNote == Iri(<<"skos", "#", "note">>)

NodeS == Iri(<<"e", "/", "S">>)

NodeT1 == Iri(<<"e", "/", "T1">>)

NodeT2 == Iri(<<"e", "/", "T2">>)

NodeX == Iri(<<"e", "/", "X">>)

\* the triples the input graphs of add_language are made of: a subject with two
\* translation nodes, one of which has a translation node itself; attributes in
\* one or two values, a value that is no literal; a label the subject has already
CleanTriples ==
    {<<NodeS, BaseIri(Base, "translations"), NodeT1>>,
     <<NodeS, BaseIri(Base, "translations"), NodeT2>>,
     <<NodeT1, BaseIri(Base, "translations"), NodeT2>>,
     <<NodeT1, BaseIri(Base, "property_name"), Plain("label")>>,
     <<NodeT1, BaseIri(Base, "property_name"), Plain("note")>>,
     <<NodeT1, BaseIri(Base, "language"), Plain("en")>>,
     <<NodeT1, BaseIri(Base, "language"), Plain("fr")>>,
     <<NodeT1, BaseIri(Base, "translated_value"), Plain("Foo")>>,
     <<NodeT2, BaseIri(Base, "property_name"), Plain("label")>>,
     <<NodeT2, BaseIri(Base, "language"), Plain("en")>>,
     <<NodeT2, BaseIri(Base, "translated_value"), Plain("Foo")>>,
     <<NodeT2, BaseIri(Base, "translated_value"), NodeX>>,
     <<NodeS, RdfsLabel, Lit(<<"Foo">>, <<"en">>)>>}

\* base_namespace arguments: the graph's, another one, one without separator
BaseNamespaces == {Base, <<"c", "#">>, <<"b">>}

\* property_map arguments
PropertyMaps ==
    {[label |-> RdfsLabel], [label |-> RdfsLabel, note |-> SkosNote]}

\* STRLANG(?value, ?lang) of SPARQL: defined on simple literals only; an error
\* leaves ?literal unbound and the solution constructs no triple
StrLangDefined(value, lang) ==
    /\ value.kind = "lit" /\ value.lang = <<>>
    /\ lang.kind = "lit" /\ lang.lang = <<>>

StrLang_untagged(value, lang) == Lit(value.val, <<>>)

StrLang(value, lang) == Lit(value.val, lang.val)

\* the objects of the triples of a subject and predicate
Objects(graph, subject, predicate) ==
    {t[3] : t \in {x \in graph : x[1] = subject /\ x[2] = predicate}}

\* the triples of the CONSTRUCT query: one for every solution of its WHERE
\* clause (edge, row of VALUES, language, value) that binds ?literal
Constructed(graph, base_namespace, property_map) ==
    UNION {
        {<<row[1][1], property_map[row[2]], StrLang(lv[2], lv[1])>> :
            lv \in {x \in Objects(graph, row[1][3],
                                  BaseIri(base_namespace, "language"))
                          \X Objects(graph, row[1][3],
                                     BaseIri(base_namespace, "translated_value")) :
                        StrLangDefined(x[2], x[1])}} :
        row \in {x \in graph \X (DOMAIN property_map) :
                    /\ x[1][2] = BaseIri(base_namespace, "translations")
                    /\ Plain(x[2]) \in Objects(graph, x[1][3],
                                               BaseIri(base_namespace,
                                                       "property_name"))}}

\* the triples the DELETE update removes: every solution of its WHERE clause is
\* a translations edge together with one triple of the edge's target
\* a cleanup that only removes the translation nodes without translation nodes
\* of their own
Deleted_leaves_only(graph, base_namespace) ==
    {d \in graph :
        \E e \in graph, a \in graph :
            /\ e[2] = BaseIri(base_namespace, "translations")
            /\ a[1] = e[3]
            /\ ~\E f \in graph :
                   f[1] = e[3] /\ f[2] = BaseIri(base_namespace, "translations")
            /\ (d = e \/ d = a)}

Deleted(graph, base_namespace) ==
    {d \in graph :
        \E e \in graph, a \in graph :
            /\ e[2] = BaseIri(base_namespace, "translations")
            /\ a[1] = e[3]
            /\ (d = e \/ d = a)}

\* the graph add_language leaves
add_language(graph, base_namespace, property_map) ==
    LET folded == graph \cup Constructed(graph, base_namespace, property_map)
    IN folded \ Deleted(folded, base_namespace)

\* no call made on the graph yet
NoGraphCall ==
    [op |-> "none", pass |-> 0, base_namespace |-> <<>>,
     property_map |-> [label |-> RdfsLabel], all_classes |-> {}, outcome |-> ""]

LoadCleanTriple ==
    /\ call.op = "none"
    /\ Cardinality(g) < MaxTriples
    /\ \E t \in CleanTriples \ g : g' = g \cup {t}
    /\ UNCHANGED <<gBefore, call, yielded>>

\* add_language on the loaded graph, and once more, with the same arguments, on
\* the graph the first pass left
AddLanguage ==
    /\ \E base_namespace \in BaseNamespaces, property_map \in PropertyMaps :
         /\ \/ call.op = "none"
            \/ /\ call.op = "add_language" /\ call.pass = 1
               /\ call.outcome = "return"
               /\ call.base_namespace = base_namespace
               /\ call.property_map = property_map
         /\ gBefore' = g
         /\ IF ~(EndsWith(base_namespace, "/") \/ EndsWith(base_namespace, "#"))
            THEN /\ g' = g
                 /\ call' = [NoGraphCall EXCEPT !.op = "add_language",
                                !.pass = call.pass + 1,
                                !.base_namespace = base_namespace,
                                !.property_map = property_map,
                                !.outcome = "ValueError"]
            ELSE /\ g' = add_language(g, base_namespace, property_map)
                 /\ call' = [NoGraphCall EXCEPT !.op = "add_language",
                                !.pass = call.pass + 1,
                                !.base_namespace = base_namespace,
                                !.property_map = property_map,
                                !.outcome = "return"]
    /\ UNCHANGED yielded


-----------------------------------------------------------------------------
(* rdfcleaner: split_into_assertions *)

SubClassOf == Iri(<<"rdfs", "#", "subClassOf">>)

SeeAlso == Iri(<<"rdfs", "#", "seeAlso">>)

ClassA == Iri(<<"e", "/", "A">>)

ClassB == Iri(<<"e", "/", "v", "#", "B">>)

ClassC == Iri(<<"e", "/", "C">>)

Parent1 == Iri(<<"e", "/", "P1">>)

Parent2 == Iri(<<"e", "/", "P2">>)

\* the triples the input graphs of split_into_assertions are made of: direct
\* subclasses of one and of two parents, a subclass of a subclass, a label,
\* and a reference from one term to another
SplitTriples ==
    {<<ClassA, SubClassOf, Parent1>>,
     <<ClassA, SubClassOf, Parent2>>,
     <<ClassB, SubClassOf, Parent1>>,
     <<ClassC, SubClassOf, ClassA>>,
     <<ClassA, RdfsLabel, Plain("a")>>,
     <<ClassC, RdfsLabel, Plain("c")>>,
     <<ClassA, SeeAlso, ClassB>>}

\* the prefixes bound in the graph's namespace manager
Prefixes == [ex |-> <<"e", "/">>]

\* parent class identifiers: full IRIs, a CURIE of a bound prefix, a CURIE of
\* a prefix that is not bound
ParentIds ==
    {<<"e", "/", "P1">>, <<"e", "/", "P2">>, <<"ex", ":", "P1">>, <<"zz", ":", "P1">>}

\* expand_curie(clss), and URIRef(clss) when it raises: a CURIE is a prefix, a
\* colon and a local part, its prefix bound in the graph
Resolve(clss) ==
    IF Len(clss) >= 2 /\ clss[2] = ":" /\ clss[1] \in DOMAIN Prefixes
    THEN Iri(Prefixes[clss[1]] \o SliceFrom(clss, 2))
    ELSE Iri(clss)

\* the index of the last occurrence of c in s, 0 when there is none
RECURSIVE LastIndex(_, _, _)
LastIndex(s, c, i) ==
    IF i = 0 THEN 0 ELSE IF s[i] = c THEN i ELSE LastIndex(s, c, i - 1)

\* subclass.split("#")[-1] if "#" in subclass else subclass.split("/")[-1]
TermId(subclass) ==
    IF LastIndex(subclass.val, "#", Len(subclass.val)) > 0
    THEN SliceFrom(subclass.val, LastIndex(subclass.val, "#", Len(subclass.val)))
    ELSE SliceFrom(subclass.val, LastIndex(subclass.val, "/", Len(subclass.val)))

\* g.triples((None, RDFS.subClassOf, parent)): the subjects found
DirectSubclasses_of_any(graph, parent) ==
    {t[1] : t \in {x \in graph : x[2] = SubClassOf}}

DirectSubclasses(graph, parent) ==
    {t[1] : t \in {x \in graph : x[2] = SubClassOf /\ x[3] = parent}}

\* the assertion graph of a term: g.triples((subclass, None, None))
AssertionGraph(graph, subclass) == {t \in graph : t[1] = subclass}

\* the orders in which a set can be iterated
Orders(S) ==
    {f \in [1..Cardinality(S) -> S] : \A i, j \in DOMAIN f : i # j => f[i] # f[j]}

RECURSIVE Concat(_)
Concat(seqs) == IF seqs = <<>> THEN <<>> ELSE Head(seqs) \o Concat(Tail(seqs))

\* what the generator yields when the classes are iterated in the order
\* classOrder and the subclasses of class c in the order subOrder[c]
Yields(graph, classOrder, subOrder) ==
    Concat([i \in DOMAIN classOrder |->
              [j \in DOMAIN subOrder[classOrder[i]] |->
                  [term_id |-> TermId(subOrder[classOrder[i]][j]),
                   graph |-> AssertionGraph(graph, subOrder[classOrder[i]][j])]]])

LoadSplitTriple ==
    /\ call.op = "none"
    /\ Cardinality(g) < MaxSplitTriples
    /\ \E t \in SplitTriples \ g : g' = g \cup {t}
    /\ UNCHANGED <<gBefore, call, yielded>>

\* split_into_assertions consumed to its end; set and graph iteration have no
\* specified order, so every order is possible
SplitIntoAssertions ==
    /\ call.op = "none"
    /\ \E all_classes \in {P \in SUBSET ParentIds : Cardinality(P) <= MaxParents} :
         \E classOrder \in Orders(all_classes) :
            \E subOrder \in
                  {f \in [all_classes ->
                            UNION {Orders(DirectSubclasses(g, Resolve(c))) :
                                      c \in all_classes}] :
                      \A c \in all_classes :
                         f[c] \in Orders(DirectSubclasses(g, Resolve(c)))} :
               /\ yielded' = Yields(g, classOrder, subOrder)
               /\ call' = [NoGraphCall EXCEPT !.op = "split_into_assertions",
                              !.pass = 1, !.outcome = "return",
                              !.all_classes = all_classes]
    /\ gBefore' = g
    /\ UNCHANGED g

-----------------------------------------------------------------------------
(* Specifications *)

MintIdle ==
    /\ entities = <<>>
    /\ pos = 0
    /\ pc = "idle"
    /\ opts = [method |-> "", force |-> FALSE, dry_run |-> FALSE]
    /\ minted = {}
    /\ kept = {}
    /\ written = None
    /\ error = ""

\* a generator no call was made on
GeneratorIdle ==
    /\ namespace = <<>>
    /\ type_prefix = None
    /\ registered_ids = {}
    /\ last = NoCall
    /\ returned = {}

GraphIdle ==
    /\ g = {}
    /\ gBefore = {}
    /\ call = NoGraphCall
    /\ yielded = <<>>

\* the IdentifierGenerator under any sequence of calls
InitGen == InitGenerator /\ MintIdle /\ GraphIdle

NextGen ==
    \/ GenerateId /\ UNCHANGED <<mintVars, graphVars>>
    \/ IsValidId /\ UNCHANGED <<mintVars, graphVars>>
    \/ RegisterId /\ UNCHANGED <<mintVars, graphVars>>
    \/ IsIdAvailable /\ UNCHANGED <<mintVars, graphVars>>

SpecGen == InitGen /\ [][NextGen]_vars

\* runs of the mint command line
InitMint == GeneratorIdle /\ MintIdle /\ GraphIdle

NextMint ==
    \/ MintStart /\ UNCHANGED graphVars
    \/ MintStep /\ UNCHANGED graphVars
    \/ MintFinish /\ UNCHANGED graphVars

SpecMint == InitMint /\ [][NextMint]_vars

\* add_language on the graphs made of CleanTriples
InitClean == GeneratorIdle /\ MintIdle /\ GraphIdle

NextClean ==
    \/ LoadCleanTriple /\ UNCHANGED <<genVars, mintVars>>
    \/ AddLanguage /\ UNCHANGED <<genVars, mintVars>>

SpecClean == InitClean /\ [][NextClean]_vars

\* split_into_assertions on the graphs made of SplitTriples
InitSplit == GeneratorIdle /\ MintIdle /\ GraphIdle

NextSplit ==
    \/ LoadSplitTriple /\ UNCHANGED <<genVars, mintVars>>
    \/ SplitIntoAssertions /\ UNCHANGED <<genVars, mintVars>>

SpecSplit == InitSplit /\ [][NextSplit]_vars

-----------------------------------------------------------------------------
(* Claims about the IdentifierGenerator, checked under SpecGen *)

Returns == last.op = "generate_id" /\ last.outcome = "return"

\* C1 as stated: across any sequence of generate_id calls on one generator, in
\* either mode, no identifier is ever returned by generate_id twice (a call
\* never returns an identifier that an earlier call returned).
C1_NoIdentifierReturnedTwice ==
    [][(last'.op = "generate_id" /\ last'.outcome = "return")
          => last'.id \notin {e.id : e \in returned}]_vars

\* C1 amended: no identifier is returned twice by generate_id calls made with
\* check_collision true, however they are interleaved with the other calls.
C1_NoCheckedIdentifierReturnedTwice ==
    [][(last'.op = "generate_id" /\ last'.outcome = "return" /\ last'.check)
          => last'.id \notin {e.id : e \in {x \in returned : x.check}}]_vars

\* a second checked call returned after its first candidate collided
C1_Witness ==
    /\ Returns /\ last.check /\ last.tried # <<>>
    /\ Cardinality({e \in returned : e.check}) >= 2

\* C2: in a generate_id call with check_collision true, a candidate found in
\* the registry is followed by another candidate while attempts remain, and
\* the first available candidate is registered and returned: the call ends
\* before its attempts are used up only by returning a registered identifier
\* that is none of the candidates that collided.
C2_RetriesUntilAvailable ==
    (/\ last.op = "generate_id" /\ last.check /\ last.method \in Supported
     /\ Len(last.tried) < last.max_attempts)
        => /\ last.outcome = "return"
           /\ last.id \in registered_ids
           /\ last.id \notin Range(last.tried)

\* C3: a generate_id call with check_collision true that found every one of
\* its max_attempts candidates registered ends with RuntimeError, whose message
\* names the record's label and the attempt count.
C3_ExhaustionRaisesRuntimeError ==
    (/\ last.op = "generate_id" /\ last.check /\ last.method \in Supported
     /\ Len(last.tried) = last.max_attempts)
        => /\ last.outcome = "RuntimeError"
           /\ last.msg = <<last.label, last.max_attempts>>

\* C4: every identifier generate_id returns, for either method and whatever the
\* namespace and type prefix of the generator, is one is_valid_id accepts for
\* that method on the same generator.
C4_ReturnedIdentifierIsValid ==
    Returns => is_valid_id(namespace, type_prefix, last.id, last.method)
                   = [outcome |-> "return", ok |-> TRUE]

\* generate_id returned on a generator that has a type prefix
C4_Witness == Returns /\ type_prefix # None /\ last.method = "uuid"

\* C8 as stated: is_valid_id fails with the unsupported-method error for every
\* method other than uuid and hash, whatever the key.
C8_UnsupportedMethodAlwaysFails ==
    (last.op = "is_valid_id" /\ last.method \notin Supported)
        => last.outcome = "NotImplementedError"

\* C8 amended: is_valid_id never changes the registry; for a method other than
\* uuid and hash it fails with the unsupported-method error when the key starts
\* with the namespace, and returns false when it does not.
C8_UnsupportedMethodFailsInNamespace ==
    [][last'.op = "is_valid_id"
          => /\ registered_ids' = registered_ids
             /\ last'.method \notin Supported
                   => IF StartsWith(last'.key, namespace)
                      THEN last'.outcome = "NotImplementedError"
                      ELSE last'.outcome = "return" /\ ~last'.ok]_vars

\* is_valid_id was called with an unsupported method on a key of the namespace,
\* with identifiers in the registry
C8_Witness ==
    /\ last.op = "is_valid_id" /\ last.method \notin Supported
    /\ StartsWith(last.key, namespace)
    /\ registered_ids # {}

\* C9: generate_id with check_collision false returns its first candidate and
\* leaves the registry as it was, also when that candidate is registered.
C9_UncheckedReturnsFirstCandidate ==
    [][(last'.op = "generate_id" /\ ~last'.check /\ last'.method \in Supported)
          => /\ registered_ids' = registered_ids
             /\ last'.outcome = "return"
             /\ last'.tried = <<>>
             /\ last'.cands = <<last'.id>>]_vars

\* an unchecked call returned an identifier that was already registered
C9_Witness == Returns /\ ~last.check /\ last.id \in registered_ids

-----------------------------------------------------------------------------
(* Claims about the mint command line, checked under SpecMint *)

\* C7: a mint run registers every identifier it keeps before it mints a new
\* one, so that when the run completes no newly minted identifier equals an
\* identifier kept on another record of the list.
C7_MintedDiffersFromKept ==
    pc = "done"
        => \A i \in minted, j \in kept : entities[i].data.id # entities[j].data.id

-----------------------------------------------------------------------------
(* Claims about add_language, checked under SpecClean *)

Cleaned == call.op = "add_language" /\ call.outcome = "return"

\* the translations predicate of the last call
Translations == BaseIri(call.base_namespace, "translations")

\* the nodes that were the target of a translations edge before the call
TranslationNodes == {e[3] : e \in {x \in gBefore : x[2] = Translations}}

\* the attribute values of node t before the call
Attribute(t, name) == Objects(gBefore, t, BaseIri(call.base_namespace, name))

IsPlain(term) == term.kind = "lit" /\ term.lang = <<>>

\* the triples the translation nodes stand for: for a subject s with a
\* translations edge to t, one for every mapped property name, plain language
\* and plain value that t carries
Expected ==
    {<<e[1], call.property_map[k], Lit(v.val, l.val)>> :
        <<e, k, l, v>> \in
            {x \in gBefore \X (DOMAIN call.property_map)
                          \X {o \in {y[3] : y \in gBefore} : IsPlain(o)}
                          \X {o \in {y[3] : y \in gBefore} : IsPlain(o)} :
                /\ x[1][2] = Translations
                /\ Plain(x[2]) \in Attribute(x[1][3], "property_name")
                /\ x[3] \in Attribute(x[1][3], "language")
                /\ x[4] \in Attribute(x[1][3], "translated_value")}}

\* C5: after add_language returns, the graph holds no triple whose predicate is
\* the translations property of base_namespace and no triple whose subject was
\* the target of a translations edge before the call.
C5_NoTranslationLeft ==
    Cleaned => \A t \in g : t[2] # Translations /\ t[1] \notin TranslationNodes

\* the translations edges to nodes that carry a mapped property name, a plain
\* language and a plain value
WellFormedEdges ==
    {e \in gBefore :
        /\ e[2] = Translations
        /\ \E k \in DOMAIN call.property_map :
              Plain(k) \in Attribute(e[3], "property_name")
        /\ \E l \in Attribute(e[3], "language") : IsPlain(l)
        /\ \E v \in Attribute(e[3], "translated_value") : IsPlain(v)}

\* the translation nodes of subject s carry at most one value per attribute
SingleValued(s) ==
    \A e \in {x \in gBefore : x[1] = s /\ x[2] = Translations} :
        \A name \in {"property_name", "language", "translated_value"} :
            Cardinality(Attribute(e[3], name)) <= 1

\* C10 as stated: every translations edge to a node with a mapped
\* property_name, a language and a translated_value adds exactly one triple,
\* the subject's mapped predicate with the value tagged with the language, and
\* nodes of the same subject are neither merged nor deduplicated; other nodes
\* add nothing.  Read in its most favourable sense: for subjects that are no
\* translation nodes and whose nodes carry one value per attribute, the graph
\* holds as many of these triples as the subject has such edges.
C10_OneTriplePerNode ==
    Cleaned
        => /\ g \ gBefore \subseteq Expected
           /\ \A s \in {e[1] : e \in gBefore} \ TranslationNodes :
                 SingleValued(s)
                    => Cardinality({t \in g \cap Expected : t[1] = s})
                          = Cardinality({e \in WellFormedEdges : e[1] = s})

\* C10 amended: the triples add_language adds are exactly those the translation
\* nodes stand for (one per subject, mapped property name, language and value
\* of a node) that the graph did not hold yet and whose subject is not itself a
\* translation node; ill-formed nodes add nothing, and the call raises no error
\* when the namespace ends in a separator.
C10_AddsExpectedTriples ==
    /\ Cleaned => g \ gBefore = {t \in Expected : t[1] \notin TranslationNodes} \ gBefore
    /\ (call.op = "add_language"
          /\ (EndsWith(call.base_namespace, "/") \/ EndsWith(call.base_namespace, "#")))
            => call.outcome = "return"

\* a subject with two well-formed translation nodes was cleaned and got two
\* triples
C10_Witness ==
    /\ Cleaned /\ call.pass = 1
    /\ {<<NodeS, Translations, NodeT1>>, <<NodeS, Translations, NodeT2>>}
           \subseteq WellFormedEdges
    /\ Cardinality({t \in g \ gBefore : t[1] = NodeS}) = 2

\* C11: a second add_language pass, with the same base_namespace and
\* property_map, on the graph the first pass left, leaves the triple set as it
\* was after the first pass.
C11_SecondPassIsNoOp ==
    (Cleaned /\ call.pass = 2) => g = gBefore

\* the second pass ran on a graph in which the first pass had folded a French
\* label, which no input graph holds
C11_Witness ==
    /\ Cleaned /\ call.pass = 2
    /\ <<NodeS, RdfsLabel, Lit(<<"Foo">>, <<"fr">>)>> \in g
    /\ g = gBefore

-----------------------------------------------------------------------------
(* Claims about split_into_assertions, checked under SpecSplit *)

Split == call.op = "split_into_assertions"

\* the subjects with a direct rdfs:subClassOf edge to a member of the parent set
DirectTerms ==
    {t[1] : t \in {x \in g : x[2] = SubClassOf
                              /\ x[3] \in {Resolve(c) : c \in call.all_classes}}}

\* C6: the union of the triples of the assertion graphs yielded equals the set
\* of triples whose subject has a direct rdfs:subClassOf edge to a member of
\* the parent set, every yielded graph holds exactly the triples of one such
\* subject, the one its term id is derived from, and an empty parent set
\* yields no pairs.
C6_SplitCompleteness ==
    Split
        => /\ UNION {y.graph : y \in Range(yielded)}
                 = {t \in g : t[1] \in DirectTerms}
           /\ \A y \in Range(yielded) :
                 \E c \in DirectTerms :
                    /\ y.term_id = TermId(c)
                    /\ y.graph = {t \in g : t[1] = c}
           /\ call.all_classes = {} => yielded = <<>>

\* a graph with a direct subclass, which references another term, and a
\* subclass of that subclass was split on a parent given as a CURIE
C6_Witness ==
    /\ Split
    /\ {<<ClassC, SubClassOf, ClassA>>, <<ClassC, RdfsLabel, Plain("c")>>,
        <<ClassA, SeeAlso, ClassB>>} \subseteq g
    /\ call.all_classes = {<<"ex", ":", "P1">>}
    /\ Len(yielded) = 1

\* the parent classes the identifiers of the last call stand for
ParentClasses == {Resolve(c) : c \in call.all_classes}

\* the positions at which node n was yielded: its assertion graph holds its
\* subClassOf edge, so the graph tells the node
YieldsOf(n) == {i \in DOMAIN yielded : yielded[i].graph = {t \in g : t[1] = n}}

\* the direct rdfs:subClassOf edges of n to members of the parent set
MatchingEdges(n) ==
    {t \in g : t[1] = n /\ t[2] = SubClassOf /\ t[3] \in ParentClasses}

\* C12: a node is yielded once per direct rdfs:subClassOf edge to a member of
\* the parent set, each time with the same term id and the same triples: twice
\* when it has edges to two different members, exactly once when it has a
\* single matching edge.
C12_YieldedOncePerMatchingEdge ==
    Split
        => \A n \in DirectTerms :
              /\ Cardinality(YieldsOf(n)) = Cardinality(MatchingEdges(n))
              /\ \A i \in YieldsOf(n) : yielded[i].term_id = TermId(n)

-----------------------------------------------------------------------------
(* Claims about the mint run, checked under SpecMint *)

\* record i is a mapping with a non-empty label
GoodRecord(i) ==
    /\ entities[i].isdict
    /\ "name" \in DOMAIN entities[i].data
    /\ entities[i].data.name # <<>>

\* C13: the run is fail-fast.  A run that fails ends with an error (exit code 1)
\* and no output file, at the first record that is no mapping, has no label or
\* gets no identifier, every record before it having been handled; a target
\* that is no list fails before any record; only a run in which every record
\* was a mapping with a label and was given or kept an identifier finishes, and
\* only a finished run writes.
C13_FailFast ==
    /\ written # None => pc = "done"
    /\ pc = "failed"
          => /\ error # "" /\ written = None
             /\ minted \cup kept = 1..(pos - 1)
             /\ \A i \in 1..(pos - 1) : GoodRecord(i)
             /\ (pos >= 1 /\ GoodRecord(pos)) => error # "ValueError"
    /\ pc = "done"
          => /\ error = ""
             /\ minted \cup kept = DOMAIN entities
             /\ \A i \in DOMAIN entities : GoodRecord(i)

\* the run gave the first record an identifier and failed on the second
C13_Witness ==
    /\ pc = "failed" /\ pos = 2 /\ 1 \in minted
    /\ written = None /\ error # ""

\* identifier generation failed for the second record after the first was
\* given an identifier
C13_GenerationFailed ==
    /\ C13_Witness
    /\ GoodRecord(2)

====
